---- MODULE Spec2Model ----
(***************************************************************************)
(* fngraph: extraction of an annotated call graph from a Python syntax     *)
(* tree (FunctionCounter), its projection to a networkx MultiDiGraph       *)
(* (to_networkx), the merge of several projections (merge_networkx) and    *)
(* the colouring of edges (color_vector).                                  *)
(*                                                                         *)
(* A syntax tree is a sequence of nodes; node 1 is the ast.Module, every   *)
(* other node names its parent, and nodes are numbered in the order of     *)
(* ast.iter_child_nodes (depth first), so the children of a node, taken by *)
(* increasing number, are in the order the code iterates them.  "If" is    *)
(* ast.If, "IfExp" ast.IfExp; "ListComp" stands for the four comprehension *)
(* classes (GeneratorExp, ListComp, SetComp, DictComp), which the code     *)
(* treats alike; "Expr" is a simple statement.  A Call node carries the    *)
(* class of its func and, for an ast.Name, the id.  Node classes the code  *)
(* does not tell apart from any other node (Assign, BinOp, arguments,      *)
(* comprehension, Import, ...) are left out: both walks pass through them  *)
(* unchanged.  The import tables are no part of the call graph and are not *)
(* modelled.                                                               *)
(*                                                                         *)
(* Spec is one unit over the whole alphabet; SpecExtract is its extraction *)
(* alone, SpecColor its projection and colouring, SpecMerge several units. *)
(***************************************************************************)
EXTENDS Integers, Sequences, FiniteSets, TLC

VARIABLES fncs, G, pretty, vector, call, exc

vars == <<fncs, G, pretty, vector, call, exc>>

\* Bounds of the model: the nodes below the Module of the one unit of Spec; the
\* units and the nodes of each unit of SpecMerge.
MaxNodes == 4

MaxUnits == 2

MaxUnitNodes == 3

None == "None"

(***************************************************************************)
(* Syntax trees                                                            *)
(***************************************************************************)
Node(kind, name, func, id) == [kind |-> kind, parent |-> 0, name |-> name, func |-> func, id |-> id]

ModuleNode == Node("Module", None, None, None)

\* ast.Call with func an ast.Name (id) or an ast.Attribute
CallName(id) == Node("Call", None, "Name", id)

CallAttribute == Node("Call", None, "Attribute", None)

StmtLabels == {Node("FunctionDef", "f", None, None), Node("ClassDef", "C", None, None), Node("If", None, None, None), Node("For", None, None, None), Node("While", None, None, None), Node("Expr", None, None, None)}

ExprLabels == {Node("IfExp", None, None, None), Node("ListComp", None, None, None), CallName("g"), CallName("print"), CallName("get"), CallAttribute}

Labels == StmtLabels \cup ExprLabels

\* Smaller alphabets: the extraction does not read the callee's name, the
\* colouring reads the flags and the names only, and the merge takes more units.
ExtractLabels == Labels \ {CallName("print"), CallName("get")}

ColorLabels == {Node("FunctionDef", "f", None, None), Node("ClassDef", "C", None, None), Node("If", None, None, None), Node("For", None, None, None), CallName("g"), CallName("print")}

UnitLabels == {Node("FunctionDef", "f", None, None), Node("ClassDef", "C", None, None), Node("If", None, None, None), CallName("g")}

StmtKinds == {"FunctionDef", "ClassDef", "If", "For", "While", "Expr"}

\* Statements that hold a block of statements
BlockKinds == {"Module", "FunctionDef", "ClassDef", "If", "For", "While"}

IsStmt(n) == n.kind \in StmtKinds

Nodes(a) == 1..Len(a)

RECURSIVE Ancestors(_, _)
\* the proper ancestors of node n
Ancestors(a, n) == IF a[n].parent = 0 THEN {} ELSE {a[n].parent} \cup Ancestors(a, a[n].parent)

\* ast.iter_child_nodes(n), as the set of node numbers
ChildSet(a, n) == {c \in Nodes(a) : a[c].parent = n}

RECURSIVE SortedSeq(_)
SortedSeq(S) == IF S = {} THEN <<>> ELSE LET m == CHOOSE x \in S : \A y \in S : x <= y IN <<m>> \o SortedSeq(S \ {m})

\* ast.iter_child_nodes(n), in order
Children(a, n) == SortedSeq(ChildSet(a, n))

\* Python's grammar: what the parser can hang below node p after p's present
\* children.  A Module holds statements; only a compound statement holds
\* statements; the test / iterable of if, for, while precedes the block; the
\* defaults and bases of a definition precede its body and its decorators
\* follow it.
Allowed(a, p, l) ==
    IF IsStmt(l)
    THEN /\ a[p].kind \in BlockKinds
         /\ \A c1, c2 \in ChildSet(a, p) : (c1 < c2 /\ IsStmt(a[c1])) => IsStmt(a[c2])
    ELSE /\ a[p].kind # "Module"
         /\ a[p].kind \in {"If", "For", "While"} => \A c \in ChildSet(a, p) : ~IsStmt(a[c])

\* The places the parser can hang the next node (depth-first order): below the
\* last node or below one of the last node's ancestors.
RightPath(a) == {Len(a)} \cup Ancestors(a, Len(a))

(***************************************************************************)
(* FunctionCounter: the extractor                                          *)
(***************************************************************************)
\* Call(obj, is_conditional, is_loop); obj is the callee's ast.Name, named here
\* by the number of its Call node
Call(obj, is_conditional, is_loop) == [obj |-> obj, is_conditional |-> is_conditional, is_loop |-> is_loop]

\* FunctionCounter.__init__: index = {}, graph = defaultdict(list).  A dict is
\* a sequence of items in insertion order; index is keyed by name.
FunctionCounter == [ast |-> <<ModuleNode>>, index |-> <<>>, graph |-> <<>>, read |-> FALSE]

\* self.index[name] = node (the last write wins)
index_set(st, name, node) == [st EXCEPT !.index = IF \E k \in DOMAIN st.index : st.index[k].name = name THEN [k \in DOMAIN st.index |-> IF st.index[k].name = name THEN [name |-> name, node |-> node] ELSE st.index[k]] ELSE Append(st.index, [name |-> name, node |-> node])]

\* self.graph[parent_node].append(call) on the defaultdict
graph_append(st, parent_node, c) == [st EXCEPT !.graph = IF \E k \in DOMAIN st.graph : st.graph[k].owner = parent_node THEN [k \in DOMAIN st.graph |-> IF st.graph[k].owner = parent_node THEN [st.graph[k] EXCEPT !.calls = Append(@, c)] ELSE st.graph[k]] ELSE Append(st.graph, [owner |-> parent_node, calls |-> <<c>>])]

\* Faulty variant: the loop branch forgets to hand is_conditional down.
child_flags_loop_drops_conditional(kind, is_conditional, is_loop) ==
    IF kind \in {"If", "IfExp"} THEN <<TRUE, is_loop>>
    ELSE IF kind \in {"For", "While"} THEN <<FALSE, TRUE>>
    ELSE <<is_conditional, is_loop>>

\* The flags _register_calls hands to a child of the given class
child_flags(kind, is_conditional, is_loop) ==
    IF kind \in {"If", "IfExp"} THEN <<TRUE, is_loop>>
    ELSE IF kind \in {"For", "While"} THEN <<is_conditional, TRUE>>
    ELSE <<is_conditional, is_loop>>

RECURSIVE _register_calls(_, _, _, _, _, _)
RECURSIVE register_children(_, _, _, _, _, _)
RECURSIVE visit(_, _, _)
RECURSIVE generic_visit(_, _, _)

_register_calls(a, st, node, parent_node, is_conditional, is_loop) ==
    IF a[node].kind = "Call"
    THEN IF a[node].func = "Name"
         THEN graph_append(st, parent_node, Call(node, is_conditional, is_loop))
         ELSE st
    ELSE register_children(a, st, Children(a, node), parent_node, is_conditional, is_loop)

\* the loop over ast.iter_child_nodes(node) of _register_calls
register_children(a, st, cs, parent_node, is_conditional, is_loop) ==
    IF cs = <<>> THEN st
    ELSE LET child == Head(cs)
             st1 == IF a[child].kind = "FunctionDef" THEN index_set(st, a[child].name, child) ELSE st
             fl == child_flags(a[child].kind, is_conditional, is_loop)
         IN register_children(a, _register_calls(a, st1, child, parent_node, fl[1], fl[2]), Tail(cs), parent_node, is_conditional, is_loop)

\* Faulty variant: the handler goes on to visit the definition's children.
visit_def_then_children(a, st, node) == generic_visit(a, _register_calls(a, index_set(st, a[node].name, node), node, node, FALSE, FALSE), Children(a, node))

\* visit_FunctionDef and visit_ClassDef
visit_FunctionDef(a, st, node) == _register_calls(a, index_set(st, a[node].name, node), node, node, FALSE, FALSE)

\* visit_For, visit_While, visit_GeneratorExp, visit_ListComp, visit_DictComp,
\* visit_SetComp, visit_comprehension
visit_For(a, st, node) == _register_calls(a, st, node, node, FALSE, TRUE)

\* ast.NodeVisitor.visit: the handler of the node's class, or generic_visit
visit(a, st, node) ==
    IF a[node].kind \in {"FunctionDef", "ClassDef"} THEN visit_FunctionDef(a, st, node)
    ELSE IF a[node].kind \in {"For", "While", "ListComp", "comprehension"} THEN visit_For(a, st, node)
    ELSE generic_visit(a, st, Children(a, node))

\* ast.NodeVisitor.generic_visit: visit every child, in order
generic_visit(a, st, cs) == IF cs = <<>> THEN st ELSE generic_visit(a, visit(a, st, Head(cs)), Tail(cs))

\* read_file: self.visit(self.ast)
read_file(fnc) == [visit(fnc.ast, fnc, 1) EXCEPT !.read = TRUE]

\* hasattr(node, "name"): function and class definitions have a name
HasName(n) == n.kind \in {"FunctionDef", "ClassDef"}

RECURSIVE pretty_items(_, _, _)
\* the loop of pretty_calls over self.graph.items(); rv is a dict name -> list
pretty_items(fnc, k, rv) ==
    IF k > Len(fnc.graph) THEN [value |-> rv, exc |-> None]
    ELSE LET f == fnc.ast[fnc.graph[k].owner]
             ids == [j \in DOMAIN fnc.graph[k].calls |-> fnc.ast[fnc.graph[k].calls[j].obj].id]
         IN IF ~HasName(f) THEN [value |-> <<>>, exc |-> "AttributeError"]
            ELSE pretty_items(fnc, k + 1, IF \E j \in DOMAIN rv : rv[j].name = f.name THEN [j \in DOMAIN rv |-> IF rv[j].name = f.name THEN [name |-> f.name, ids |-> ids] ELSE rv[j]] ELSE Append(rv, [name |-> f.name, ids |-> ids]))

pretty_calls(fnc) == pretty_items(fnc, 1, <<>>)

(***************************************************************************)
(* networkx.MultiDiGraph, as far as fngraph uses it.  node is the node     *)
(* dict (insertion order); adj holds one entry per pair (u, v) with an     *)
(* edge, in the order the pairs first got one, and the entry's keydict     *)
(* holds the parallel edges u -> v by key, in insertion order.             *)
(***************************************************************************)
MultiDiGraph == [node |-> <<>>, adj |-> <<>>]

\* the caller holds no graph: none was returned
NoGraph == [none |-> TRUE]

InSeq(x, s) == \E k \in DOMAIN s : s[k] = x

add_node(g, n) == IF InSeq(n, g.node) THEN g ELSE [g EXCEPT !.node = Append(@, n)]

RECURSIVE new_edge_key(_, _)
\* MultiGraph.new_edge_key: len(keydict), raised until unused
new_edge_key(keydict, key) == IF \E j \in DOMAIN keydict : keydict[j].key = key THEN new_edge_key(keydict, key + 1) ELSE key

\* keydict[key] = data for a new key, keydict[key].update(data) for a present one
keydict_put(keydict, key, data) == IF \E j \in DOMAIN keydict : keydict[j].key = key THEN [j \in DOMAIN keydict |-> IF keydict[j].key = key THEN [key |-> key, data |-> data] ELSE keydict[j]] ELSE Append(keydict, [key |-> key, data |-> data])

\* key=None of add_edge
NoKey == -1

\* MultiDiGraph.add_edge(u, v, key, **data); without a key the edge gets a new one
add_edge(g, u, v, key, data) ==
    LET g1 == add_node(add_node(g, u), v)
        adj1 == IF \E k \in DOMAIN g1.adj : g1.adj[k].u = u /\ g1.adj[k].v = v THEN g1.adj ELSE Append(g1.adj, [u |-> u, v |-> v, keydict |-> <<>>])
    IN [g1 EXCEPT !.adj = [k \in DOMAIN adj1 |-> IF adj1[k].u = u /\ adj1[k].v = v THEN [adj1[k] EXCEPT !.keydict = keydict_put(@, IF key = NoKey THEN new_edge_key(@, Len(@)) ELSE key, data)] ELSE adj1[k]]]

RECURSIVE Flatten(_)
Flatten(ss) == IF ss = <<>> THEN <<>> ELSE Head(ss) \o Flatten(Tail(ss))

\* the edges of one adjacency entry, by key
EntryEdges(e) == [j \in DOMAIN e.keydict |-> [u |-> e.u, v |-> e.v, key |-> e.keydict[j].key, data |-> e.keydict[j].data]]

\* G.edges(keys=True, data=True): by node, then by neighbour, then by key
edges(g) ==
    LET of(u) == LET ks == SortedSeq({k \in DOMAIN g.adj : g.adj[k].u = u})
                 IN Flatten([j \in DOMAIN ks |-> EntryEdges(g.adj[ks[j]])])
    IN Flatten([n \in DOMAIN g.node |-> of(g.node[n])])

RECURSIVE add_edges_from(_, _)
\* MultiDiGraph.add_edges_from of (u, v, key, data) tuples
add_edges_from(g, es) == IF es = <<>> THEN g ELSE add_edges_from(add_edge(g, Head(es).u, Head(es).v, Head(es).key, Head(es).data), Tail(es))

RECURSIVE add_nodes_from(_, _)
add_nodes_from(g, ns) == IF ns = <<>> THEN g ELSE add_nodes_from(add_node(g, Head(ns)), Tail(ns))

\* networkx.compose(g, h): the nodes and the keyed edges of g, then those of h;
\* an edge of h with the pair and key of an edge of g takes its place
compose(g, h) == add_edges_from(add_edges_from(add_nodes_from(add_nodes_from(MultiDiGraph, g.node), h.node), edges(g)), edges(h))

(***************************************************************************)
(* to_networkx, merge_networkx, color_vector                               *)
(***************************************************************************)
\* dir(__builtins__), cut to the names of the model: __builtins__ is the
\* builtins module in the script that is run, and the dict of that module in
\* every imported module.
DirBuiltinsModule == {"print", "len", "range"}

DirBuiltinsDict == {"get", "keys", "items"}

BuiltinsEnvs == {DirBuiltinsModule, DirBuiltinsDict}

\* The flat list of (owner, call) pairs the two loops of to_networkx go through
GraphItems(fnc) == Flatten([k \in DOMAIN fnc.graph |-> [j \in DOMAIN fnc.graph[k].calls |-> [v1 |-> fnc.graph[k].owner, e |-> fnc.graph[k].calls[j]]]])

RECURSIVE to_networkx_loop(_, _, _, _, _)
to_networkx_loop(fnc, items, filter_builtins, _builtins, g) ==
    IF items = <<>> THEN [value |-> g, exc |-> None]
    ELSE LET v1 == fnc.ast[Head(items).v1]
             e == Head(items).e
             id == fnc.ast[e.obj].id
         IN IF (filter_builtins /\ id \notin _builtins) \/ ~filter_builtins
            THEN IF ~HasName(v1) THEN [value |-> NoGraph, exc |-> "AttributeError"]
                 ELSE to_networkx_loop(fnc, Tail(items), filter_builtins, _builtins, add_edge(g, v1.name, id, NoKey, [in_conditional |-> e.is_conditional, in_loop |-> e.is_loop]))
            ELSE to_networkx_loop(fnc, Tail(items), filter_builtins, _builtins, g)

to_networkx(fnc, filter_builtins, _builtins) == to_networkx_loop(fnc, GraphItems(fnc), filter_builtins, _builtins, MultiDiGraph)

RECURSIVE reduce_compose(_, _, _, _, _)
\* functools.reduce(nx.compose, gfs) over the generator gfs, from accumulator acc
reduce_compose(fs, k, filter_builtins, _builtins, acc) ==
    IF k > Len(fs) THEN [value |-> acc, exc |-> None]
    ELSE LET r == to_networkx(fs[k], filter_builtins, _builtins)
         IN IF r.exc # None THEN r ELSE reduce_compose(fs, k + 1, filter_builtins, _builtins, compose(acc, r.value))

merge_networkx(fs, filter_builtins, _builtins) ==
    IF fs = <<>> THEN [value |-> NoGraph, exc |-> "TypeError"]
    ELSE LET r == to_networkx(fs[1], filter_builtins, _builtins)
         IN IF r.exc # None THEN r ELSE reduce_compose(fs, 2, filter_builtins, _builtins, r.value)

\* colors, and a colormap without an entry for (True, True).  A colormap is a
\* function of <<in_conditional, in_loop>>.
colors == (<<TRUE, TRUE>> :> "brown") @@ (<<TRUE, FALSE>> :> "cyan") @@ (<<FALSE, TRUE>> :> "red") @@ (<<FALSE, FALSE>> :> "black")

partial_colors == (<<TRUE, FALSE>> :> "cyan") @@ (<<FALSE, TRUE>> :> "red") @@ (<<FALSE, FALSE>> :> "black")

Colormaps == {colors, partial_colors}

\* Faulty variant: the key holds the two flags the other way round.
color_key_swapped(data) == <<data.in_loop, data.in_conditional>>

\* key = data['in_conditional'], data['in_loop']
color_key(data) == <<data.in_conditional, data.in_loop>>

RECURSIVE color_loop(_, _, _)
color_loop(es, colormap, cl) ==
    IF es = <<>> THEN [value |-> cl, exc |-> None]
    ELSE IF color_key(Head(es).data) \notin DOMAIN colormap THEN [value |-> <<>>, exc |-> "KeyError"]
    ELSE color_loop(Tail(es), colormap, Append(cl, colormap[color_key(Head(es).data)]))

color_vector(g, colormap) == color_loop(edges(g), colormap, <<>>)

(***************************************************************************)
(* The state machine.  fncs are the FunctionCounter instances; call is the *)
(* caller's most recent call and exc the exception it raised; G, pretty    *)
(* and vector are what to_networkx / merge_networkx, pretty_calls and      *)
(* color_vector returned (a call that raises returns nothing).  Before     *)
(* read_file the field ast of an instance stands for the parse of its      *)
(* file's text, which Source grows.  A file is read once (a second         *)
(* read_file would walk the tree again), and files are read in order.      *)
(* to_networkx, merge_networkx, pretty_calls and color_vector change no    *)
(* instance, so a run makes one of them, and color_vector after a graph    *)
(* was returned.                                                           *)
(***************************************************************************)
Init ==
    /\ fncs = <<>>
    /\ G = NoGraph
    /\ pretty = <<>>
    /\ vector = <<>>
    /\ call = [op |-> "init"]
    /\ exc = None

AllRead == \A i \in DOMAIN fncs : fncs[i].read

NoQueryYet == call.op \in {"init", "FunctionCounter", "read_file"}

\* FunctionCounter(filename)
Construct(maxUnits) ==
    /\ NoQueryYet /\ AllRead
    /\ Len(fncs) < maxUnits
    /\ fncs' = Append(fncs, FunctionCounter)
    /\ call' = [op |-> "FunctionCounter"]
    /\ UNCHANGED <<G, pretty, vector, exc>>

\* The file of the newest instance: its text has one more node.
Source(labels, maxNodes) ==
    /\ fncs # <<>>
    /\ LET i == Len(fncs)
           a == fncs[i].ast
       IN /\ ~fncs[i].read
          /\ Len(a) <= maxNodes
          /\ \E p \in RightPath(a), l \in labels :
                /\ Allowed(a, p, l)
                /\ fncs' = [fncs EXCEPT ![i].ast = Append(a, [l EXCEPT !.parent = p])]
    /\ UNCHANGED <<G, pretty, vector, call, exc>>

ReadFile ==
    /\ \E i \in DOMAIN fncs :
          /\ ~fncs[i].read
          /\ fncs' = [fncs EXCEPT ![i] = read_file(fncs[i])]
          /\ call' = [op |-> "read_file"]
    /\ UNCHANGED <<G, pretty, vector, exc>>

PrettyCalls ==
    /\ NoQueryYet /\ AllRead
    /\ \E i \in DOMAIN fncs :
          LET r == pretty_calls(fncs[i])
          IN /\ call' = [op |-> "pretty_calls", i |-> i]
             /\ pretty' = r.value
             /\ exc' = r.exc
    /\ UNCHANGED <<fncs, G, vector>>

ToNetworkx ==
    /\ NoQueryYet /\ AllRead
    /\ \E i \in DOMAIN fncs, filter_builtins \in BOOLEAN, _builtins \in BuiltinsEnvs :
          LET r == to_networkx(fncs[i], filter_builtins, _builtins)
          IN /\ call' = [op |-> "to_networkx", i |-> i, filter_builtins |-> filter_builtins]
             /\ G' = r.value
             /\ exc' = r.exc
    /\ UNCHANGED <<fncs, pretty, vector>>

MergeNetworkx ==
    /\ NoQueryYet /\ AllRead
    /\ \E filter_builtins \in BOOLEAN, _builtins \in BuiltinsEnvs :
          LET r == merge_networkx(fncs, filter_builtins, _builtins)
          IN /\ call' = [op |-> "merge_networkx", filter_builtins |-> filter_builtins]
             /\ G' = r.value
             /\ exc' = r.exc
    /\ UNCHANGED <<fncs, pretty, vector>>

ColorVector ==
    /\ call.op \in {"to_networkx", "merge_networkx"}
    /\ exc = None
    /\ \E colormap \in Colormaps :
          LET r == color_vector(G, colormap)
          IN /\ call' = [op |-> "color_vector", G |-> G, colormap |-> colormap]
             /\ vector' = r.value
             /\ exc' = r.exc
    /\ UNCHANGED <<fncs, G, pretty>>

Next ==
    \/ Construct(1)
    \/ Source(Labels, MaxNodes)
    \/ ReadFile
    \/ PrettyCalls
    \/ ToNetworkx
    \/ MergeNetworkx
    \/ ColorVector

Spec == Init /\ [][Next]_vars

NextMerge ==
    \/ Construct(MaxUnits)
    \/ Source(UnitLabels, MaxUnitNodes)
    \/ ReadFile
    \/ PrettyCalls
    \/ ToNetworkx
    \/ MergeNetworkx
    \/ ColorVector

SpecMerge == Init /\ [][NextMerge]_vars

NextExtract ==
    \/ Construct(1)
    \/ Source(ExtractLabels, MaxNodes)
    \/ ReadFile

SpecExtract == Init /\ [][NextExtract]_vars

NextColor ==
    \/ Construct(1)
    \/ Source(ColorLabels, MaxNodes)
    \/ ReadFile
    \/ ToNetworkx
    \/ ColorVector

SpecColor == Init /\ [][NextColor]_vars

(***************************************************************************)
(* Notions the properties are stated in                                    *)
(***************************************************************************)
DefKinds == {"FunctionDef", "ClassDef"}

Defs(a) == {n \in Nodes(a) : a[n].kind \in DefKinds}

NameCalls(a) == {n \in Nodes(a) : a[n].kind = "Call" /\ a[n].func = "Name"}

\* the nodes lexically between owner d and its descendant n
Between(a, d, n) == Ancestors(a, n) \ (Ancestors(a, d) \cup {d})

\* how many CallEdges of call node c the edge list of owner o holds
EdgeCount(fnc, o, c) == Cardinality({k \in DOMAIN GraphItems(fnc) : GraphItems(fnc)[k].v1 = o /\ GraphItems(fnc)[k].e.obj = c})

TotalEdgeCount(fnc, c) == Cardinality({k \in DOMAIN GraphItems(fnc) : GraphItems(fnc)[k].e.obj = c})

Owners(fnc) == {fnc.graph[k].owner : k \in DOMAIN fnc.graph}

\* the classes of node the visitor has a handler for
HandledKinds == {"FunctionDef", "ClassDef", "For", "While", "ListComp"}

\* the handled ancestors of n, and the outermost of them
HandledAbove(a, n) == {x \in Ancestors(a, n) : a[x].kind \in HandledKinds}

Outermost(S) == CHOOSE x \in S : \A y \in S : x <= y

OwnerNames == {"f", "C"}

CalleeIds == {"g", "print", "get"}

\* the host's built-in callables among the names of the model
BuiltinCallableNames == {"print", "len", "range"}

\* how many edges u -> v with the flags (c, l) a graph holds
GraphEdgeCount(g, u, v, c, l) == Cardinality({k \in DOMAIN edges(g) : edges(g)[k].u = u /\ edges(g)[k].v = v /\ edges(g)[k].data.in_conditional = c /\ edges(g)[k].data.in_loop = l})

\* how many CallEdges {v, c, l} the owners named u hold
CallEdgeCount(fnc, u, v, c, l) == Cardinality({k \in DOMAIN GraphItems(fnc) : /\ HasName(fnc.ast[GraphItems(fnc)[k].v1]) /\ fnc.ast[GraphItems(fnc)[k].v1].name = u /\ fnc.ast[GraphItems(fnc)[k].e.obj].id = v /\ GraphItems(fnc)[k].e.is_conditional = c /\ GraphItems(fnc)[k].e.is_loop = l})

SeqSet(s) == {s[k] : k \in DOMAIN s}

Reverse(s) == [k \in DOMAIN s |-> s[Len(s) + 1 - k]]

RECURSIVE Sum(_)
Sum(s) == IF s = <<>> THEN 0 ELSE Head(s) + Sum(Tail(s))

SameEdges(g, h) == \A u \in OwnerNames, v \in CalleeIds, c \in BOOLEAN, l \in BOOLEAN : GraphEdgeCount(g, u, v, c, l) = GraphEdgeCount(h, u, v, c, l)

(***************************************************************************)
(* Properties                                                              *)
(***************************************************************************)

\* C1: after extraction, every plain-name call lexically inside a function or
\* class definition D, at any depth, has exactly one CallEdge in the edge list
\* of D or of a definition enclosing D, and no owner holds two edges of it.
C1_EveryCallOneEdge ==
    \A i \in DOMAIN fncs : fncs[i].read =>
        LET a == fncs[i].ast
        IN \A D \in Defs(a), c \in NameCalls(a) : D \in Ancestors(a, c) =>
              /\ \E O \in {D} \cup (Ancestors(a, D) \cap Defs(a)) : EdgeCount(fncs[i], O, c) = 1
              /\ \A O \in Nodes(a) : EdgeCount(fncs[i], O, c) <= 1

\* C2: in the edge list of a definition D, a call is recorded with
\* in_conditional true exactly when an if or a conditional expression lies
\* between D and the call, and with in_loop true exactly when a for or a while
\* does, whatever the nesting order: a flag set on the way down is never
\* cleared.
C2_FlagsFollowNesting ==
    \A i \in DOMAIN fncs : fncs[i].read =>
        LET a == fncs[i].ast
            its == GraphItems(fncs[i])
        IN \A k \in DOMAIN its : a[its[k].v1].kind \in DefKinds =>
              LET mid == Between(a, its[k].v1, its[k].e.obj)
              IN /\ its[k].e.is_conditional = (\E x \in mid : a[x].kind \in {"If", "IfExp"})
                 /\ its[k].e.is_loop = (\E x \in mid : a[x].kind \in {"For", "While"})

\* C2, witness: a definition's edge with both flags true, for a call in a loop
\* that lies in a conditional.
C2_Witness ==
    \E i \in DOMAIN fncs : fncs[i].read /\
        LET a == fncs[i].ast
            its == GraphItems(fncs[i])
        IN \E k \in DOMAIN its :
              /\ a[its[k].v1].kind \in DefKinds
              /\ its[k].e.is_conditional /\ its[k].e.is_loop
              /\ \E x, y \in Between(a, its[k].v1, its[k].e.obj) : a[x].kind = "If" /\ a[y].kind = "For" /\ x \in Ancestors(a, y)

\* the calls of a definition's body that the registration walk comes to: no
\* other call expression lies between the walk's root and the call
Reached(a, c) == HandledAbove(a, c) # {} /\ \A x \in Between(a, Outermost(HandledAbove(a, c)), c) : a[x].kind # "Call"

C4_MergeAddsEdgeCounts ==
    (call.op = "merge_networkx" /\ exc = None) =>
        \E b \in BuiltinsEnvs :
            /\ G = merge_networkx(fncs, call.filter_builtins, b).value
            /\ LET part(fnc) == to_networkx(fnc, call.filter_builtins, b).value
               IN /\ SeqSet(G.node) = UNION {SeqSet(part(fncs[i]).node) : i \in DOMAIN fncs}
                  /\ \A u \in OwnerNames, v \in CalleeIds, c \in BOOLEAN, l \in BOOLEAN :
                        GraphEdgeCount(G, u, v, c, l) = Sum([i \in DOMAIN fncs |-> GraphEdgeCount(part(fncs[i]), u, v, c, l)])

\* C5: merging the units in the opposite order gives the same nodes and the
\* same multiset of edges.
C5_MergeOrderIndependent ==
    (call.op = "merge_networkx" /\ exc = None) =>
        \E b \in BuiltinsEnvs :
            /\ G = merge_networkx(fncs, call.filter_builtins, b).value
            /\ LET r == merge_networkx(Reverse(fncs), call.filter_builtins, b)
               IN /\ r.exc = None
                  /\ SeqSet(r.value.node) = SeqSet(G.node)
                  /\ SameEdges(r.value, G)

\* C6: projecting without the builtin filter gives a graph with one edge
\* D.name -> name per CallEdge, flags kept: as many edges as CallEdges.
C6_ProjectionKeepsEveryEdge ==
    (call.op = "to_networkx" /\ ~call.filter_builtins) =>
        /\ exc = None
        /\ Len(edges(G)) = Len(GraphItems(fncs[call.i]))
        /\ \A u \in OwnerNames, v \in CalleeIds, c \in BOOLEAN, l \in BOOLEAN : GraphEdgeCount(G, u, v, c, l) = CallEdgeCount(fncs[call.i], u, v, c, l)

\* C7: a projection with the builtin filter has no edge to a built-in callable
\* of the host (print, len) and has every CallEdge to another name.
C7_FilterRemovesExactlyBuiltins ==
    (call.op = "to_networkx" /\ call.filter_builtins /\ exc = None) =>
        /\ \A k \in DOMAIN edges(G) : edges(G)[k].v \notin BuiltinCallableNames
        /\ \A u \in OwnerNames, v \in CalleeIds \ BuiltinCallableNames, c \in BOOLEAN, l \in BOOLEAN : GraphEdgeCount(G, u, v, c, l) = CallEdgeCount(fncs[call.i], u, v, c, l)

\* C8: color_vector returns one colour per edge, in the order the graph
\* iterates its edges, the colour the colormap gives the edge's
\* (in_conditional, in_loop), and leaves the graph as it was; it raises
\* KeyError exactly when the colormap lacks an edge's pair.
C8_ColorPerEdge ==
    call.op = "color_vector" =>
        LET es == edges(call.G)
            cm == call.colormap
        IN /\ G = call.G
           /\ IF \A k \in DOMAIN es : <<es[k].data.in_conditional, es[k].data.in_loop>> \in DOMAIN cm
              THEN /\ exc = None
                   /\ Len(vector) = Len(es)
                   /\ \A k \in DOMAIN es : vector[k] = cm[<<es[k].data.in_conditional, es[k].data.in_loop>>]
              ELSE exc = "KeyError"

\* C8, witness: the spec's example among the edges: a (true, false) edge
\* coloured cyan, in a vector of several colours.
C8_Witness ==
    /\ call.op = "color_vector" /\ exc = None
    /\ \E j, k \in DOMAIN vector : vector[j] = "cyan" /\ vector[k] # "cyan" /\ edges(G)[j].data = [in_conditional |-> TRUE, in_loop |-> FALSE]

\* C9: no core operation on extracted units raises: extraction, pretty_calls,
\* projection with either setting, merge of a sequence of units.  (Taken over
\* the nonempty sequences.)
C9_NoOperationRaises == (fncs # <<>> /\ call.op \in {"read_file", "pretty_calls", "to_networkx", "merge_networkx"}) => exc = None

\* C10: in a definition's edge list, a call below a for, a while or a
\* comprehension / generator expression is recorded with in_loop true.
C10_ComprehensionIsLoop ==
    \A i \in DOMAIN fncs : fncs[i].read =>
        LET a == fncs[i].ast
            its == GraphItems(fncs[i])
        IN \A k \in DOMAIN its : a[its[k].v1].kind \in DefKinds =>
              ((\E x \in Between(a, its[k].v1, its[k].e.obj) : a[x].kind \in {"For", "While", "ListComp"}) => its[k].e.is_loop)

====
